---- MODULE Spec2Model ----
(***************************************************************************)
(* The IPC handlers of src/main/Ui/Menu/menu.ts that install and discover  *)
(* local plugin packages:                                                  *)
(*   writeNewExtensionToDisk              (writeNewPackage)                *)
(*   createMultipleNewLocalFileExtensions (importExtensions)               *)
(* Each handler is an async function on a single-threaded event loop: the  *)
(* code between two awaits runs atomically, and every await is a point at  *)
(* which another command or task may run.  One action below is one such    *)
(* atomic stretch.                                                         *)
(*                                                                         *)
(* A file or directory name is a sequence of one-character strings, a path *)
(* is a sequence of names (the root "/" is the empty path), and an         *)
(* optional value (undefined or a value) is a sequence of length 0 or 1.   *)
(***************************************************************************)
EXTENDS Integers, Sequences, FiniteSets, TLC

\* ------------------------------------------------------------ bounds
\* The longest file list a writeNewExtensionToDisk request carries.
MaxFiles == 2

\* ------------------------------------------------------------ strings
WordChars ==
  {"a","b","c","d","e","f","g","h","i","j","k","l","m","n","o","p","q","r",
   "s","t","u","v","w","x","y","z","0","1","2","3","4","5","6","7","8","9","_"}

MANIFEST_FILE_NAME == <<"m","a","n","i","f","e","s","t",".","j","s","o","n">>

FILE_EXTENSION_WHITE_LIST ==
  { <<".","j","s","o","n">>, <<".","j","s">>, <<".","h","t","m","l">> }

\* The characters sanitizeFileName removes from a name.
UnsafeChars == {"/", "\\", "?", "<", ">", ":", "*", "|"}

\* The greatest index of ch in s, 0 when s has no ch.
LastIndexOf(s, ch) ==
  LET hits == {i \in 1..Len(s) : s[i] = ch}
  IN  IF hits = {} THEN 0 ELSE CHOOSE i \in hits : \A j \in hits : j <= i

\* path.extname: from the last dot of the last path segment to the end; empty
\* when that segment has no dot or only a leading one.
extname(name) ==
  LET start == LastIndexOf(name, "/") + 1
      dot   == LastIndexOf(name, ".")
  IN  IF dot = 0 \/ dot <= start THEN <<>> ELSE SubSeq(name, dot, Len(name))

\* /^\w+(?:\.\w+)*\.\w+/.test(name): the pattern is anchored at the start
\* only, so it accepts every name that begins with a run of word characters
\* followed by a dot and one more word character.
ShapeTest(name) ==
  \E k \in 1..Len(name) :
     /\ \A i \in 1..k : name[i] \in WordChars
     /\ k + 2 <= Len(name)
     /\ name[k + 1] = "."
     /\ name[k + 2] \in WordChars

sanitizeFileName(name) == SelectSeq(name, LAMBDA ch : ch \notin UnsafeChars)

\* The exact-match sanitization check left out.
NameAllowed_Unsanitized(name) ==
  /\ extname(name) \in FILE_EXTENSION_WHITE_LIST
  /\ ShapeTest(name)

\* Lines 192-196: the three checks of a file name.
NameAllowed(name) ==
  /\ extname(name) \in FILE_EXTENSION_WHITE_LIST
  /\ ShapeTest(name)
  /\ name = sanitizeFileName(name)

\* ------------------------------------------------------------ paths
basename(p) == IF p = <<>> THEN <<>> ELSE p[Len(p)]

\* path.parse(p).dir: the parent; the root's and a top-level entry's is the root.
parseDir(p) == IF Len(p) <= 1 THEN <<>> ELSE SubSeq(p, 1, Len(p) - 1)

\* path.join(dir, name) and path.resolve(dir, name) for a one-segment name.
join(dir, name) == Append(dir, name)

\* ------------------------------------------------------------ JSON
\* A JSON value: a scalar (t, s) or an object with the two optional fields the
\* handler reads.
Str(s)  == [t |-> "str",  s |-> s,    name |-> <<>>, build |-> <<>>]
Num(s)  == [t |-> "num",  s |-> s,    name |-> <<>>, build |-> <<>>]
Bool(s) == [t |-> "bool", s |-> s,    name |-> <<>>, build |-> <<>>]
Null    == [t |-> "null", s |-> <<>>, name |-> <<>>, build |-> <<>>]
Obj(name, build) == [t |-> "obj", s |-> <<>>, name |-> name, build |-> build]

\* JavaScript truthiness of an optional JSON value (undefined is falsy).
Truthy(opt) ==
  /\ opt # <<>>
  /\ LET v == opt[1]
     IN  CASE v.t = "str"  -> v.s # <<>>
           [] v.t = "num"  -> v.s # <<"0">>
           [] v.t = "bool" -> v.s = <<"t">>
           [] v.t = "null" -> FALSE
           [] OTHER        -> TRUE

\* File content: binary, or a text.  A text is either not JSON or the
\* serialization of a JSON value at some indentation.
Binary        == [kind |-> "binary", valid |-> FALSE, indent |-> 0, json |-> Null]
Garbage       == [kind |-> "text",   valid |-> FALSE, indent |-> 0, json |-> Null]
Text(v, ind)  == [kind |-> "text",   valid |-> TRUE,  indent |-> ind, json |-> v]

\* JSON.stringify(v, undefined, 2)
JSONstringify(v) == Text(v, 2)

\* JSON.parse(text): <<v>>, or <<>> when it throws.
JSONparse(c) == IF c.valid THEN <<c.json>> ELSE <<>>

\* ------------------------------------------------------------ registry
\* Ext.addPath(p) on a registry held as the sequence of registered manifest
\* paths in insertion order; an extension's id is its position.
addPath(reg, p) ==
  LET hits == {i \in 1..Len(reg) : reg[i] = p}
  IN  IF hits # {}
        THEN [id |-> CHOOSE i \in hits : TRUE, existed |-> TRUE, reg |-> reg]
        ELSE [id |-> Len(reg) + 1, existed |-> FALSE, reg |-> Append(reg, p)]

\* ------------------------------------------------------------ inputs
P  == <<"p">>
E1 == <<"e","1">>
E2 == <<"e","2">>

\* The directories a save prompt can return; the root has no leaf name.
Dests == { <<P, E1>>, <<P, E2>> }
PromptAnswers == { <<>> } \cup { <<d>> : d \in Dests \cup { <<>> } }

Cmds == {"c1", "c2"}

NamedManifest  == Obj(<<Str(<<"n">>)>>, <<>>)
PlainFiles ==
  { [name |-> <<"c","o","d","e",".","j","s">>, content |-> Garbage],
    [name |-> <<"r","u","n",".","e","x","e">>, content |-> Garbage],
    [name |-> <<"a",".",".","j","s">>,         content |-> Garbage],
    [name |-> <<"a",".","b","/","c",".","j","s">>, content |-> Garbage] }
ManifestContents ==
  { Text(NamedManifest, 0),
    Text(Obj(<<>>, <<>>), 0),
    Text(Obj(<<>>, <<Str(<<"x">>)>>), 0),
    Text(Obj(<<Str(<<"n">>)>>, <<Str(<<>>)>>), 0),
    Text(Num(<<"1">>), 0),
    Garbage,
    Binary }
FilePool ==
  PlainFiles \cup { [name |-> MANIFEST_FILE_NAME, content |-> c] : c \in ManifestContents }

CodeJs == [name |-> <<"c","o","d","e",".","j","s">>, content |-> Garbage]

\* data.files of a request: command c1 carries any list of at most MaxFiles
\* files of the pool; c2, the command in flight beside it, a well-formed
\* package of two files.
FileLists == UNION { [1..n -> FilePool] : n \in 0..MaxFiles }
RivalLists ==
  { << CodeJs, [name |-> MANIFEST_FILE_NAME, content |-> Text(Obj(<<>>, <<>>), 0)] >> }
Inputs(c) == IF c = "c1" THEN FileLists ELSE RivalLists

\* ------------------------------------------------------------ state
VARIABLES
  registry,            \* Ext: the registered manifest paths, by id
  dirOwner,            \* disk: per destination, "absent", "pre" (there before) or the command whose mkPath made it
  diskFiles,           \* disk: the files written, [path, content, by]
  lastSavedPluginDir,  \* storage.settings.app.lastSavedPluginDir (optional path)
  wpc,                 \* per command: idle, prompt, access, mkpath, writing, done
  wfiles,              \* per command: data.files
  wmanifest,           \* per command: manifest (optional JSON value)
  wmIdx,               \* per command: the index of manifestFile in data.files, 0 for null
  wsaveDir,            \* per command: saveDir (optional path: undefined until answered, and on a cancel)
  wpending,            \* per command: the indices of the writeFile promises not settled
  wfailed,             \* per command: the indices of the writes that failed (logged)
  werr,                \* per command: the error the handler threw, "none" if none
  werrName,            \* per command: the file name in the error message
  wresult,             \* per command: what the handler returned
  weffects             \* per command: what it did: prompted, setLast, made, wrote, registered

wvars == <<dirOwner, diskFiles, lastSavedPluginDir, wpc, wfiles, wmanifest,
           wmIdx, wsaveDir, wpending, wfailed, werr, werrName, wresult, weffects>>

VARIABLES
  fs,        \* disk: the tree the open dialog and the scan see, path -> "dir", "file" or "broken"
  ipc,       \* the import command: idle, running, resolved, rejected
  icount,    \* the import commands started so far
  ipicks,    \* pickedPaths
  idepth,    \* data.depth
  ibase,     \* the number of registry records when the command started
  tasks,     \* the processEntry calls made: [pick, path, depth, topLevel, st, err, reg]
  added,     \* the handler's added array
  existed,   \* the handler's existed array
  ireturn,   \* what the handler returned: [added, existed]
  ierr       \* the error the handler rejected with, "none" if none

ivars == <<fs, ipc, icount, ipicks, idepth, ibase, tasks, added, existed, ireturn, ierr>>

VARIABLES
  epc,            \* the export command: idle, save, dir, wait, mkpath, write, dialog, done
  ecount,         \* the export commands started so far
  efiles,         \* data.files: the name of each file, as its path segments
  eidx,           \* the file the loop is at
  savePath,       \* the save dialog's answer, <<>> before it and when cancelled
  directories,    \* the open dialog's answer: [null, list]
  directoryPath,  \* <<>> for null
  skipReplaceConfirmation,
  lastExportDir,  \* storage.settings.app.lastExportDir, <<>> when unset
  exportDirs,     \* disk: the directories mkPath made
  exportFiles,    \* disk: the paths writeFile wrote
  eattempted,     \* this command: the files the loop has reached, in order
  emade,          \* this command: the directories its mkPath calls made
  ewrote,         \* this command: the files written
  edialogs,       \* this command: the files an error box was shown for, in order
  eerr,           \* the error the handler's promise is rejected with, "none" if none
  eoutcome        \* pending, empty, cancelled, finished or rejected

evars == <<epc, ecount, efiles, eidx, savePath, directories, directoryPath,
           skipReplaceConfirmation, lastExportDir, exportDirs, exportFiles,
           eattempted, emade, ewrote, edialogs, eerr, eoutcome>>

vars == <<registry, wvars, ivars, evars>>

NoResult  == [kind |-> "pending",   id |-> 0]
Undefined == [kind |-> "undefined", id |-> 0]
Id(n)     == [kind |-> "id",        id |-> n]

NoEffects ==
  [prompted |-> FALSE, setLast |-> FALSE, made |-> FALSE, mkCalled |-> FALSE,
   wrote |-> {}, registered |-> FALSE]

\* ------------------------------------------------------------ writeNewExtensionToDisk
\* Line 210: the reserved-field test of the parsed manifest.
BuildRejected(m) == Truthy(m.build)

\* Lines 191-218: the validation loop from file i on, with the manifest found
\* so far, and the check after it.
RECURSIVE ValidateFrom(_, _, _, _)
ValidateFrom(files, i, man, idx) ==
  IF i > Len(files)
    THEN IF man = <<>> \/ idx = 0
           THEN [err |-> "NoManifestError", name |-> <<>>, man |-> man, idx |-> idx]
           ELSE [err |-> "none", name |-> <<>>, man |-> man, idx |-> idx]
    ELSE LET f == files[i]
             bad(e) == [err |-> e, name |-> f.name, man |-> man, idx |-> idx]
         IN  IF ~NameAllowed(f.name) THEN bad("InvalidFileError")
             ELSE IF f.name = MANIFEST_FILE_NAME
               THEN IF f.content.kind # "text" THEN bad("ManifestTypeError")
                    ELSE IF JSONparse(f.content) = <<>> THEN bad("ManifestParseError")
                    ELSE LET m == JSONparse(f.content)[1]
                         IN  IF m.t # "obj" THEN bad("ManifestShapeError")
                             ELSE IF BuildRejected(m) THEN bad("ReservedFieldError")
                             ELSE ValidateFrom(files, i + 1, <<m>>, i)
               ELSE ValidateFrom(files, i + 1, man, idx)

Validate(files) == ValidateFrom(files, 1, <<>>, 0)

\* Lines 187-229: the handler up to its first await: validation, then the
\* save prompt is shown.  data.dirName and the last-save directory (lines
\* 220-222) only make the prompt's suggested path, which no later step reads.
WStart(c, files) ==
  /\ wpc[c] = "idle"
  /\ wfiles' = [wfiles EXCEPT ![c] = files]
  /\ LET v == Validate(files)
     IN  IF v.err # "none"
           THEN /\ wpc' = [wpc EXCEPT ![c] = "done"]
                /\ werr' = [werr EXCEPT ![c] = v.err]
                /\ werrName' = [werrName EXCEPT ![c] = v.name]
                /\ UNCHANGED <<wmanifest, wmIdx, weffects>>
           ELSE /\ wpc' = [wpc EXCEPT ![c] = "prompt"]
                /\ wmanifest' = [wmanifest EXCEPT ![c] = v.man]
                /\ wmIdx' = [wmIdx EXCEPT ![c] = v.idx]
                /\ weffects' = [weffects EXCEPT ![c].prompted = TRUE]
                /\ UNCHANGED <<werr, werrName>>
  /\ UNCHANGED <<registry, dirOwner, diskFiles, lastSavedPluginDir, wsaveDir,
                 wpending, wfailed, wresult>>
  /\ UNCHANGED <<ivars, evars>>

\* Line 231: the prompt's answer is falsy (the user cancelled).
Cancelled(answer) == answer = <<>>

\* The setting stored before the cancel check.
LastDirAfterPrompt_Eager(last, answer) ==
  IF Cancelled(answer) THEN << <<>> >> ELSE <<parseDir(answer[1])>>

\* Lines 231-237: the last-save-directory setting after the prompt: kept on a
\* cancel, else the parent of the chosen destination.
LastDirAfterPrompt(last, answer) ==
  IF Cancelled(answer) THEN last ELSE <<parseDir(answer[1])>>

\* Lines 231-246: the prompt is answered; up to the await of access().
WPrompt(c, answer) ==
  /\ wpc[c] = "prompt"
  /\ wsaveDir' = [wsaveDir EXCEPT ![c] = answer]
  /\ lastSavedPluginDir' = LastDirAfterPrompt(lastSavedPluginDir, answer)
  /\ IF Cancelled(answer)
       THEN /\ wpc' = [wpc EXCEPT ![c] = "done"]
            /\ wresult' = [wresult EXCEPT ![c] = Undefined]
            /\ UNCHANGED <<wmanifest, wfiles, werr, weffects>>
       ELSE LET saveDir == answer[1]
                base    == basename(saveDir)
                man     == wmanifest[c][1]
                named   == [man EXCEPT !.name = <<Str(base)>>]
            IN  /\ weffects' = [weffects EXCEPT ![c].setLast = TRUE]
                /\ wresult' = wresult
                /\ IF base = <<>>
                     THEN /\ wpc' = [wpc EXCEPT ![c] = "done"]
                          /\ werr' = [werr EXCEPT ![c] = "InvalidDirectoryError"]
                          /\ UNCHANGED <<wmanifest, wfiles>>
                     ELSE /\ wpc' = [wpc EXCEPT ![c] = "access"]
                          /\ werr' = werr
                          /\ IF ~Truthy(man.name)
                               THEN /\ wmanifest' = [wmanifest EXCEPT ![c] = <<named>>]
                                    /\ wfiles' = [wfiles EXCEPT
                                         ![c][wmIdx[c]].content = JSONstringify(named)]
                               ELSE UNCHANGED <<wmanifest, wfiles>>
  /\ UNCHANGED <<registry, dirOwner, diskFiles, wmIdx, wpending, wfailed, werrName>>
  /\ UNCHANGED <<ivars, evars>>

\* access(p) of Utils/Main: whether p exists.
access(owner, p) == owner[p] # "absent"

\* The existence check ignored.
Refused_Never(accessDir) == FALSE

\* Line 248: the destination is refused.
Refused(accessDir) == accessDir

\* Lines 246-252: access() has answered; up to the await of mkPath().
WAccess(c) ==
  /\ wpc[c] = "access"
  /\ IF Refused(access(dirOwner, wsaveDir[c][1]))
       THEN /\ wpc' = [wpc EXCEPT ![c] = "done"]
            /\ werr' = [werr EXCEPT ![c] = "DestinationExistsError"]
            /\ UNCHANGED weffects
       ELSE /\ wpc' = [wpc EXCEPT ![c] = "mkpath"]
            /\ weffects' = [weffects EXCEPT ![c].mkCalled = TRUE]
            /\ werr' = werr
  /\ UNCHANGED <<registry, dirOwner, diskFiles, lastSavedPluginDir, wfiles, wmanifest,
                 wmIdx, wsaveDir, wpending, wfailed, werrName, wresult>>
  /\ UNCHANGED <<ivars, evars>>

\* mkPath(p) of Utils/Main: creates p and its missing parents; a directory
\* that is already there is left as it is.
mkPath(owner, p, c) == IF owner[p] = "absent" THEN [owner EXCEPT ![p] = c] ELSE owner

\* Lines 252-268: mkPath() has returned (a failing mkPath is not modelled);
\* every writeFile is issued.
WMkPath(c) ==
  /\ wpc[c] = "mkpath"
  /\ dirOwner' = mkPath(dirOwner, wsaveDir[c][1], c)
  /\ weffects' = [weffects EXCEPT ![c].made = (dirOwner[wsaveDir[c][1]] = "absent")]
  /\ wpending' = [wpending EXCEPT ![c] = 1..Len(wfiles[c])]
  /\ wpc' = [wpc EXCEPT ![c] = "writing"]
  /\ UNCHANGED <<registry, diskFiles, lastSavedPluginDir, wfiles, wmanifest, wmIdx,
                 wsaveDir, wfailed, werr, werrName, wresult>>
  /\ UNCHANGED <<ivars, evars>>

\* fs.promises.writeFile(path, content): the file at path now holds content.
writeFile(files, path, content, c) ==
  {f \in files : f.path # path} \cup {[path |-> path, content |-> content, by |-> c]}

\* The test of addPath's answer inverted.
Registered_Inverted(res) ==
  IF res.existed
    THEN [err |-> "none", result |-> Id(res.id)]
    ELSE [err |-> "UnexpectedDuplicateError", result |-> NoResult]

\* The existing id returned instead of the error.
Registered_Lenient(res) == [err |-> "none", result |-> Id(res.id)]

\* Lines 272-276: what the handler makes of addPath's answer: the error it
\* throws ("none" if none) and the value it returns.
Registered(res) ==
  IF res.existed
    THEN [err |-> "UnexpectedDuplicateError", result |-> NoResult]
    ELSE [err |-> "none", result |-> Id(res.id)]

\* Lines 257-276: one writeFile settles, with success or with a failure that
\* the catch logs; when it is the last one, Promise.all resolves and the
\* handler registers the manifest path and returns.
WWrite(c, i, ok) ==
  /\ wpc[c] = "writing"
  /\ i \in wpending[c]
  /\ wpending' = [wpending EXCEPT ![c] = @ \ {i}]
  /\ LET filePath == join(wsaveDir[c][1], wfiles[c][i].name)
     IN  IF ok
           THEN /\ diskFiles' = writeFile(diskFiles, filePath, wfiles[c][i].content, c)
                /\ wfailed' = wfailed
           ELSE /\ diskFiles' = diskFiles
                /\ wfailed' = [wfailed EXCEPT ![c] = @ \cup {i}]
  /\ IF wpending[c] = {i}
       THEN LET res == addPath(registry, join(wsaveDir[c][1], MANIFEST_FILE_NAME))
            IN  /\ registry' = res.reg
                /\ wpc' = [wpc EXCEPT ![c] = "done"]
                /\ weffects' = [weffects EXCEPT
                     ![c].wrote = IF ok THEN @ \cup {i} ELSE @,
                     ![c].registered = ~res.existed]
                /\ werr' = [werr EXCEPT ![c] = Registered(res).err]
                /\ wresult' = [wresult EXCEPT ![c] = Registered(res).result]
       ELSE /\ weffects' = [weffects EXCEPT ![c].wrote = IF ok THEN @ \cup {i} ELSE @]
            /\ UNCHANGED <<registry, wpc, werr, wresult>>
  /\ UNCHANGED <<dirOwner, lastSavedPluginDir, wfiles, wmanifest, wmIdx, wsaveDir, werrName>>
  /\ UNCHANGED <<ivars, evars>>

\* Ext.loadExtensionManifest(id): the parsed content of the manifest file at
\* the path registered under id; <<>> when there is no such file or it does
\* not parse.
getManifest(reg, files, id) ==
  LET hits == {f \in files : f.path = reg[id]}
  IN  IF hits = {} THEN <<>> ELSE JSONparse((CHOOSE f \in hits : TRUE).content)

\* ------------------------------------------------------------ createMultipleNewLocalFileExtensions
\* The bounds of an import: the greatest data.depth and the number of import
\* commands run one after the other.
MaxDepth == 3
MaxImports == 2

Plugins == <<"p","l","u","g","i","n","s">>
DirA    == <<"a">>
DirB    == <<"b">>
DirX    == <<"x">>
Hidden  == <<".","h">>
Notes   == <<"n","o","t","e","s",".","t","x","t">>
Link    == <<"l","n","k">>

ManifestA == <<Plugins, DirA, MANIFEST_FILE_NAME>>
ManifestX == <<Plugins, DirB, DirX, MANIFEST_FILE_NAME>>
ManifestH == <<Plugins, Hidden, MANIFEST_FILE_NAME>>

\* The tree on disk: two packages, one of them a level deeper, a file that is
\* no manifest, and a package in a hidden directory.
HealthyTree ==
  [p \in { <<Plugins>>, <<Plugins, DirA>>, <<Plugins, DirB>>, <<Plugins, DirB, DirX>>,
           <<Plugins, Hidden>>, ManifestA, ManifestX, ManifestH, <<Plugins, DirA, Notes>> }
     |-> IF basename(p) \in {MANIFEST_FILE_NAME, Notes} THEN "file" ELSE "dir"]

\* The same tree with a dangling symbolic link in it: readdir lists the link
\* and stat fails on it.
DamagedTree == (<<Plugins, DirB, Link>> :> "broken") @@ HealthyTree

Trees == {HealthyTree, DamagedTree}

\* The paths the user picks in the open dialog.
Pickable ==
  { <<Plugins>>, ManifestA, <<Plugins, DirA, Notes>>, <<Plugins, Hidden>> }
\* dialogResult.filePaths: no path, one path, or two paths picked together
\* (the same one twice, or overlapping ones, included).
PickLists ==
  { <<>> } \cup { <<p>> : p \in Pickable } \cup { <<p, q>> : p \in Pickable, q \in Pickable }

\* fs.promises.readdir(dir): the names of the entries of dir.
readdir(tree, dir) ==
  { basename(p) : p \in {q \in DOMAIN tree : Len(q) = Len(dir) + 1 /\ parseDir(q) = dir} }

\* The hidden entries kept.
Visible_All(names) == names

\* The test of the first character inverted.
Visible_Inverted(names) == {n \in names : n # <<>> /\ n[1] = "."}

\* Line 127: the names that do not begin with a dot (name[0] of an empty
\* name is undefined, which is not a dot).
Visible(names) == {n \in names : n = <<>> \/ n[1] # "."}

\* A manifest is looked for below the boundary as well.
Descend_Inclusive(isDirectory, depth) == isDirectory /\ depth >= 0

\* Line 125: the entry is a directory the scan goes into.
Descend(isDirectory, depth) == isDirectory /\ depth > 0

\* Every entry that is no manifest is complained about.
Complains_Always(topLevel) == TRUE

\* Line 140: an entry that is neither gone into nor a manifest is an error.
Complains(topLevel) == topLevel

\* processEntry(path, depth, topLevel) as called for pick number k: it runs up
\* to its await of stat.
Entry(k, path, depth, topLevel) ==
  [pick |-> k, path |-> path, depth |-> depth, topLevel |-> topLevel,
   st |-> "stat", err |-> "none", reg |-> "no", late |-> FALSE]

Pending(ts) == {t \in ts : t.st \in {"stat", "readdir"}}
Failed(ts)  == {t \in ts : t.st = "failed"}

\* A failed call kept from the joint wait, as by Promise.allSettled.
Settle_Isolated(ts, err, add, exi) ==
  IF ipc = "running" /\ Pending(ts) = {}
    THEN ipc' = "resolved" /\ ierr' = ierr /\ ireturn' = [added |-> add, existed |-> exi]
    ELSE UNCHANGED <<ipc, ierr, ireturn>>

\* The joint waits (lines 129 and 145) after a step that leaves the calls ts:
\* the first failure rejects the command; it resolves, with the two arrays,
\* once no call is pending and none has failed.
Settle(ts, err, add, exi) ==
  IF ipc # "running"
    THEN UNCHANGED <<ipc, ierr, ireturn>>
    ELSE IF err # "none"
      THEN ipc' = "rejected" /\ ierr' = err /\ ireturn' = ireturn
      ELSE IF Pending(ts) = {} /\ Failed(ts) = {}
        THEN ipc' = "resolved" /\ ierr' = ierr
             /\ ireturn' = [added |-> add, existed |-> exi]
        ELSE UNCHANGED <<ipc, ierr, ireturn>>

\* Every id pushed to added.
Existed_Never(res) == FALSE

\* Lines 135-139: the answer of addPath goes to existed, not to added.
Existed(res) == res.existed

\* Lines 110-120 and 145: the open dialog is answered; unless it was cancelled,
\* processEntry is called for every picked path.  A command starts once the
\* calls of the one before it have all settled.
IStart(canceled, picks, depth) ==
  /\ ipc \in {"idle", "resolved", "rejected"}
  /\ Pending(tasks) = {}
  /\ icount < MaxImports
  /\ \A k \in 1..Len(picks) : picks[k] \in DOMAIN fs
  /\ icount' = icount + 1
  /\ ibase' = Len(registry)
  /\ added' = <<>>
  /\ existed' = <<>>
  /\ idepth' = depth
  /\ ierr' = "none"
  /\ IF canceled \/ picks = <<>>
       THEN /\ ipicks' = <<>>
            /\ tasks' = {}
            /\ ipc' = "resolved"
            /\ ireturn' = [added |-> <<>>, existed |-> <<>>]
       ELSE /\ ipicks' = picks
            /\ tasks' = {Entry(k, picks[k], depth, TRUE) : k \in 1..Len(picks)}
            /\ ipc' = "running"
            /\ ireturn' = [added |-> <<>>, existed |-> <<>>]
  /\ UNCHANGED <<registry, fs>>
  /\ UNCHANGED <<wvars, evars>>

\* Lines 123-142: stat has answered for call t; the call goes on to its await
\* of readdir or to its end.
IStat(t) ==
  /\ t \in tasks
  /\ t.st = "stat"
  /\ LET others == tasks \ {t}
         fail(e) ==
           /\ tasks' = others \cup {[t EXCEPT !.st = "failed", !.err = e]}
           /\ Settle(tasks', e, added, existed)
           /\ UNCHANGED <<registry, added, existed>>
     IN  IF fs[t.path] = "broken" THEN fail("StatError")
         ELSE IF Descend(fs[t.path] = "dir", t.depth)
           THEN /\ tasks' = others \cup {[t EXCEPT !.st = "readdir"]}
                /\ UNCHANGED <<registry, added, existed, ipc, ierr, ireturn>>
         ELSE IF basename(t.path) = MANIFEST_FILE_NAME
           THEN LET res == addPath(registry, t.path)
                IN  /\ registry' = res.reg
                    /\ existed' = IF Existed(res) THEN Append(existed, res.id) ELSE existed
                    /\ added' = IF Existed(res) THEN added ELSE Append(added, res.id)
                    /\ tasks' = others \cup
                         {[t EXCEPT !.st = "done",
                                    !.reg = IF Existed(res) THEN "existed" ELSE "added",
                                    !.late = (ipc # "running")]}
                    /\ Settle(tasks', "none", added', existed')
         ELSE IF Complains(t.topLevel) THEN fail("ManifestNamingError")
         ELSE /\ tasks' = others \cup {[t EXCEPT !.st = "done"]}
              /\ Settle(tasks', "none", added, existed)
              /\ UNCHANGED <<registry, added, existed>>
  /\ UNCHANGED <<fs, icount, ipicks, idepth, ibase>>
  /\ UNCHANGED <<wvars, evars>>

\* Lines 126-131: readdir has answered for call t; processEntry is called for
\* every visible child and t waits for them all.
IReaddir(t) ==
  /\ t \in tasks
  /\ t.st = "readdir"
  /\ tasks' = (tasks \ {t}) \cup {[t EXCEPT !.st = "done"]}
       \cup {Entry(t.pick, join(t.path, n), t.depth - 1, FALSE) :
               n \in Visible(readdir(fs, t.path))}
  /\ Settle(tasks', "none", added, existed)
  /\ UNCHANGED <<registry, added, existed, fs, icount, ipicks, idepth, ibase>>
  /\ UNCHANGED <<wvars, evars>>

\* ------------------------------------------------------------ writeFiles
\* The number of export commands, one after the other.
MaxExports == 2

AJs  == <<"a",".","j","s">>
BJs  == <<"b",".","j","s">>
S    == <<"s">>
O    == <<"o">>
OTxt == <<"o",".","t","x","t">>

\* data.files of an export: nothing, one file with a simple name, one file in
\* a subdirectory, and lists of two.
ExportLists ==
  { <<>>,
    << <<AJs>> >>,
    << <<S, AJs>> >>,
    << <<AJs>>, <<BJs>> >>,
    << <<S, AJs>>, <<BJs>> >> }

\* What the save dialog returns: nothing on a cancel, else the chosen path,
\* with or without an extension, in a directory or at the root.
SaveAnswers == { <<>> } \cup { <<p>> : p \in { <<P, O>>, <<P, OTxt>>, <<OTxt>> } }

\* What the open dialog returns: null, an empty list, or the one directory.
NoDirectories == [null |-> TRUE, list |-> <<>>]
DirAnswers ==
  { NoDirectories, [null |-> FALSE, list |-> <<>>],
    [null |-> FALSE, list |-> << <<P>> >>],
    [null |-> FALSE, list |-> << <<P, E1>> >>] }

\* path.dirname(p)
dirname(p) == IF Len(p) <= 1 THEN <<>> ELSE SubSeq(p, 1, Len(p) - 1)

\* path.join(dir, name) for a name of one segment or more.
joinPath(dir, name) == dir \o name

\* mkPath(p) at work: p and every missing directory above it.
Ancestors(p) == { SubSeq(p, 1, k) : k \in 0..Len(p) }

\* Line 305: the save dialog is for one file whose name has no separator.
SingleSimple(files) == Len(files) = 1 /\ Len(files[1]) = 1

\* Lines 314-319: the name of the file after the save dialog: the leaf of the
\* chosen path, with the original extension when it has none.
SavedName(sp, original) ==
  IF extname(basename(sp)) = <<>>
    THEN basename(sp) \o extname(basename(original))
    ELSE basename(sp)

\* The setting left as it was when the save path is chosen.
LastExportDirAfterSave_Kept(last, answer) == last

\* Lines 312-322: the last-export-directory setting after the save dialog.
LastExportDirAfterSave(last, answer) ==
  IF answer = <<>> THEN last ELSE <<parseDir(answer[1])>>

\* Line 329: the open dialog gave no single directory.
Declined(dirs) == dirs.null \/ Len(dirs.list) # 1

\* Lines 341-343: the loop reaches file i of n, or ends and the handler
\* returns.
ELoop(n, i) ==
  IF i > n
    THEN /\ epc' = "done"
         /\ eoutcome' = "finished"
         /\ UNCHANGED <<eidx, eattempted>>
    ELSE /\ epc' = "mkpath"
         /\ eidx' = i
         /\ eattempted' = Append(eattempted, i)
         /\ eoutcome' = eoutcome

\* Lines 294-311 and 323-328: the handler up to its first await: nothing to do
\* for no files, else one of the two dialogs is shown.
EStart(files) ==
  /\ epc \in {"idle", "done"}
  /\ ecount < MaxExports
  /\ ecount' = ecount + 1
  /\ efiles' = files
  /\ eidx' = 0
  /\ savePath' = <<>>
  /\ directories' = NoDirectories
  /\ directoryPath' = <<>>
  /\ skipReplaceConfirmation' = FALSE
  /\ eattempted' = <<>>
  /\ emade' = {}
  /\ ewrote' = {}
  /\ edialogs' = <<>>
  /\ eerr' = "none"
  /\ IF files = <<>>
       THEN epc' = "done" /\ eoutcome' = "empty"
       ELSE /\ epc' = IF SingleSimple(files) THEN "save" ELSE "dir"
            /\ eoutcome' = "pending"
  /\ UNCHANGED <<lastExportDir, exportDirs, exportFiles>>
  /\ UNCHANGED <<registry, wvars, ivars>>

\* Lines 307-322 and 337-343: the save dialog is answered; on a path, up to
\* the first await of mkPath.
ESave(answer) ==
  /\ epc = "save"
  /\ savePath' = answer
  /\ lastExportDir' = LastExportDirAfterSave(lastExportDir, answer)
  /\ IF answer = <<>>
       THEN /\ epc' = "done"
            /\ eoutcome' = "cancelled"
            /\ UNCHANGED <<efiles, eidx, directoryPath, skipReplaceConfirmation, eattempted>>
       ELSE /\ directoryPath' = <<dirname(answer[1])>>
            /\ efiles' = << <<SavedName(answer[1], efiles[1])>> >>
            /\ skipReplaceConfirmation' = (extname(basename(answer[1])) # <<>>)
            /\ ELoop(1, 1)
  /\ UNCHANGED <<ecount, directories, exportDirs, exportFiles, emade, ewrote, edialogs, eerr>>
  /\ UNCHANGED <<registry, wvars, ivars>>

\* Lines 324-328: the open dialog is answered; the handler waits a tick.
EDir(answer) ==
  /\ epc = "dir"
  /\ directories' = answer
  /\ epc' = "wait"
  /\ UNCHANGED <<ecount, efiles, eidx, savePath, directoryPath, skipReplaceConfirmation,
                 lastExportDir, exportDirs, exportFiles, eattempted, emade, ewrote,
                 edialogs, eerr, eoutcome>>
  /\ UNCHANGED <<registry, wvars, ivars>>

\* Lines 328-343: after the tick: no single directory ends the command, else
\* the directory is kept and the loop begins.
EWait ==
  /\ epc = "wait"
  /\ IF Declined(directories)
       THEN /\ epc' = "done"
            /\ eoutcome' = "cancelled"
            /\ UNCHANGED <<directoryPath, lastExportDir, eidx, eattempted>>
       ELSE /\ directoryPath' = <<directories.list[1]>>
            /\ lastExportDir' = <<directories.list[1]>>
            /\ ELoop(Len(efiles), 1)
  /\ UNCHANGED <<ecount, efiles, savePath, directories, skipReplaceConfirmation,
                 exportDirs, exportFiles, emade, ewrote, edialogs, eerr>>
  /\ UNCHANGED <<registry, wvars, ivars>>

\* Lines 342-346: mkPath of the file's directory has settled.  It is awaited
\* outside the try: when it fails the handler's promise is rejected and the
\* loop is left; else writeFile is issued.
EMkPath(ok) ==
  /\ epc = "mkpath"
  /\ LET dir == dirname(joinPath(directoryPath[1], efiles[eidx]))
     IN  IF ok
           THEN /\ exportDirs' = exportDirs \cup Ancestors(dir)
                /\ emade' = emade \cup (Ancestors(dir) \ exportDirs)
                /\ epc' = "write"
                /\ UNCHANGED <<eerr, eoutcome>>
           ELSE /\ epc' = "done"
                /\ eerr' = "MkPathError"
                /\ eoutcome' = "rejected"
                /\ UNCHANGED <<exportDirs, emade>>
  /\ UNCHANGED <<ecount, efiles, eidx, savePath, directories, directoryPath,
                 skipReplaceConfirmation, lastExportDir, exportFiles, eattempted,
                 ewrote, edialogs>>
  /\ UNCHANGED <<registry, wvars, ivars>>

\* Lines 345-354: writeFile has settled: on success the loop goes on, on a
\* failure the catch shows the error box and waits for it.
EWrite(ok) ==
  /\ epc = "write"
  /\ IF ok
       THEN /\ exportFiles' = exportFiles \cup {joinPath(directoryPath[1], efiles[eidx])}
            /\ ewrote' = ewrote \cup {eidx}
            /\ edialogs' = edialogs
            /\ ELoop(Len(efiles), eidx + 1)
       ELSE /\ epc' = "dialog"
            /\ edialogs' = Append(edialogs, eidx)
            /\ UNCHANGED <<exportFiles, ewrote, eidx, eattempted, eoutcome>>
  /\ UNCHANGED <<ecount, efiles, savePath, directories, directoryPath,
                 skipReplaceConfirmation, lastExportDir, exportDirs, emade, eerr>>
  /\ UNCHANGED <<registry, wvars, ivars>>

\* Lines 348-355: the error box is closed; the loop goes on.
EDialog ==
  /\ epc = "dialog"
  /\ ELoop(Len(efiles), eidx + 1)
  /\ UNCHANGED <<ecount, efiles, savePath, directories, directoryPath,
                 skipReplaceConfirmation, lastExportDir, exportDirs, exportFiles,
                 emade, ewrote, edialogs, eerr>>
  /\ UNCHANGED <<registry, wvars, ivars>>

\* ------------------------------------------------------------ specifications
LeftoverPath == join(<<P, E1>>, MANIFEST_FILE_NAME)

WIdle ==
  /\ diskFiles = {}
  /\ lastSavedPluginDir = <<>>
  /\ wpc = [c \in Cmds |-> "idle"]
  /\ wfiles = [c \in Cmds |-> <<>>]
  /\ wmanifest = [c \in Cmds |-> <<>>]
  /\ wmIdx = [c \in Cmds |-> 0]
  /\ wsaveDir = [c \in Cmds |-> <<>>]
  /\ wpending = [c \in Cmds |-> {}]
  /\ wfailed = [c \in Cmds |-> {}]
  /\ werr = [c \in Cmds |-> "none"]
  /\ werrName = [c \in Cmds |-> <<>>]
  /\ wresult = [c \in Cmds |-> NoResult]
  /\ weffects = [c \in Cmds |-> NoEffects]

IIdle ==
  /\ ipc = "idle"
  /\ icount = 0
  /\ ipicks = <<>>
  /\ idepth = 0
  /\ ibase = 0
  /\ tasks = {}
  /\ added = <<>>
  /\ existed = <<>>
  /\ ireturn = [added |-> <<>>, existed |-> <<>>]
  /\ ierr = "none"

EIdle ==
  /\ epc = "idle"
  /\ ecount = 0
  /\ efiles = <<>>
  /\ eidx = 0
  /\ savePath = <<>>
  /\ directories = NoDirectories
  /\ directoryPath = <<>>
  /\ skipReplaceConfirmation = FALSE
  /\ lastExportDir = <<>>
  /\ exportDirs = {}
  /\ exportFiles = {}
  /\ eattempted = <<>>
  /\ emade = {}
  /\ ewrote = {}
  /\ edialogs = <<>>
  /\ eerr = "none"
  /\ eoutcome = "pending"

\* Before any writeNewExtensionToDisk: the first destination may be on disk
\* already, and the registry may hold the record of an extension imported from
\* it earlier, whether or not the directory is still on disk.
WInit ==
  /\ registry \in { <<>>, <<LeftoverPath>> }
  /\ dirOwner \in { [d \in Dests |-> IF d = <<P, E1>> THEN o ELSE "absent"] :
                      o \in {"absent", "pre"} }
  /\ WIdle
  /\ fs = HealthyTree
  /\ IIdle
  /\ EIdle

WNext ==
  \/ \E c \in Cmds : \E files \in Inputs(c) : WStart(c, files)
  \/ \E c \in Cmds, answer \in PromptAnswers : WPrompt(c, answer)
  \/ \E c \in Cmds : WAccess(c)
  \/ \E c \in Cmds : WMkPath(c)
  \/ \E c \in Cmds, i \in 1..MaxFiles, ok \in BOOLEAN : WWrite(c, i, ok)

\* The writeNewExtensionToDisk commands in flight together.
Spec == WInit /\ [][WNext]_vars

\* Before any import: an empty registry and one of the trees on disk.
IInit ==
  /\ registry = <<>>
  /\ dirOwner = [d \in Dests |-> "absent"]
  /\ WIdle
  /\ fs \in Trees
  /\ IIdle
  /\ EIdle

INext ==
  \/ \E canceled \in BOOLEAN, picks \in PickLists, depth \in 0..MaxDepth :
       IStart(canceled, picks, depth)
  \/ \E t \in tasks : IStat(t)
  \/ \E t \in tasks : IReaddir(t)

\* The import commands, one after the other, each with its concurrent calls.
SpecImport == IInit /\ [][INext]_vars

\* Before any export: nothing exported yet, the setting unset.
EInit ==
  /\ registry = <<>>
  /\ dirOwner = [d \in Dests |-> "absent"]
  /\ WIdle
  /\ fs = HealthyTree
  /\ IIdle
  /\ EIdle

ENext ==
  \/ \E files \in ExportLists : EStart(files)
  \/ \E answer \in SaveAnswers : ESave(answer)
  \/ \E answer \in DirAnswers : EDir(answer)
  \/ EWait
  \/ \E ok \in BOOLEAN : EMkPath(ok)
  \/ \E ok \in BOOLEAN : EWrite(ok)
  \/ EDialog

\* The export commands, one after the other.
SpecExport == EInit /\ [][ENext]_vars

\* ------------------------------------------------------------ claims: writeNewPackage
FailsNameChecks(name) ==
  \/ extname(name) \notin FILE_EXTENSION_WHITE_LIST
  \/ ~ShapeTest(name)
  \/ name # sanitizeFileName(name)

BadNames(files) == {i \in 1..Len(files) : FailsNameChecks(files[i].name)}
ManifestFiles(files) == {i \in 1..Len(files) : files[i].name = MANIFEST_FILE_NAME}

IsObjectManifest(f) ==
  /\ f.name = MANIFEST_FILE_NAME
  /\ f.content.kind = "text"
  /\ f.content.valid
  /\ f.content.json.t = "obj"

DeclaresBuild(f) == IsObjectManifest(f) /\ f.content.json.build # <<>>

\* A manifest file the validation loop throws on.
ManifestRejected(f) ==
  /\ f.name = MANIFEST_FILE_NAME
  /\ ~FailsNameChecks(f.name)
  /\ (~IsObjectManifest(f) \/ Truthy(f.content.json.build))

ManifestErrors ==
  {"ManifestTypeError", "ManifestParseError", "ManifestShapeError", "ReservedFieldError"}

ManifestPathOf(c) == join(wsaveDir[c][1], MANIFEST_FILE_NAME)
InRegistry(p) == \E i \in 1..Len(registry) : registry[i] = p

\* Command c has made no directory and written no file.
NoDiskEffect(c) ==
  /\ ~weffects[c].mkCalled
  /\ ~weffects[c].made
  /\ weffects[c].wrote = {}
  /\ \A f \in diskFiles : f.by # c
  /\ \A d \in Dests : dirOwner[d] # c

\* C1: a file list whose names all pass and whose single manifest declares a
\* build field, of whatever value, fails with ReservedFieldError, with no
\* prompt shown, no directory made, no file written and nothing registered.
C1_BuildAlwaysRejected ==
  \A c \in Cmds :
    ( /\ wpc[c] # "idle"
      /\ BadNames(wfiles[c]) = {}
      /\ Cardinality(ManifestFiles(wfiles[c])) = 1
      /\ \A i \in ManifestFiles(wfiles[c]) : DeclaresBuild(wfiles[c][i]) )
    => /\ wpc[c] = "done"
       /\ werr[c] = "ReservedFieldError"
       /\ ~weffects[c].prompted
       /\ NoDiskEffect(c)
       /\ ~weffects[c].registered

\* C2: a command whose destination exists when access() answers fails with
\* DestinationExistsError at that step, which changes neither disk nor
\* registry; a command that failed so has made no directory, written no file
\* and registered nothing.
C2_Inv ==
  \A c \in Cmds :
    werr[c] = "DestinationExistsError"
    => /\ wpc[c] = "done"
       /\ NoDiskEffect(c)
       /\ ~weffects[c].registered
       /\ wresult[c] = NoResult

C2_Act ==
  \A c \in Cmds :
    (wpc[c] = "access" /\ wpc'[c] # "access" /\ dirOwner[wsaveDir[c][1]] # "absent")
    => /\ wpc'[c] = "done"
       /\ werr'[c] = "DestinationExistsError"
       /\ UNCHANGED <<dirOwner, diskFiles, registry>>

C2_DestinationExists == []C2_Inv /\ [][C2_Act]_vars

C2_Witness ==
  \E c \in Cmds : wpc[c] = "done" /\ werr[c] = "DestinationExistsError"

\* C3: every file on disk was written by the command whose mkPath made the
\* directory it is in: no command writes into a directory that was there
\* before or that another command made.
C3_NeverMerges ==
  \A f \in diskFiles : dirOwner[parseDir(f.path)] = f.by

\* C4 as stated: every file of the list that fails a name check is the one
\* the command's InvalidFileError names.
C4_EveryOffenderNamed ==
  \A c \in Cmds : \A i \in BadNames(wfiles[c]) :
    wpc[c] # "idle"
    => /\ wpc[c] = "done"
       /\ werr[c] = "InvalidFileError"
       /\ werrName[c] = wfiles[c][i].name
       /\ ~weffects[c].prompted
       /\ NoDiskEffect(c)

\* C4, amended: a list with a file that fails a name check never gets to the
\* prompt or the disk; the command fails with InvalidFileError naming the
\* first such file, unless a manifest file standing before it is rejected,
\* and then with that manifest's error.
C4_FirstOffenderNamed ==
  \A c \in Cmds :
    (wpc[c] # "idle" /\ BadNames(wfiles[c]) # {})
    => LET first == CHOOSE i \in BadNames(wfiles[c]) :
                      \A j \in BadNames(wfiles[c]) : i <= j
       IN  /\ wpc[c] = "done"
           /\ ~weffects[c].prompted
           /\ NoDiskEffect(c)
           /\ ~weffects[c].registered
           /\ IF \E j \in 1..(first - 1) : ManifestRejected(wfiles[c][j])
                THEN werr[c] \in ManifestErrors /\ werrName[c] = MANIFEST_FILE_NAME
                ELSE werr[c] = "InvalidFileError" /\ werrName[c] = wfiles[c][first].name

\* An offending file that stands after a manifest the loop accepted.
C4_Witness ==
  \E c \in Cmds :
    /\ wpc[c] = "done"
    /\ Len(wfiles[c]) = 2
    /\ IsObjectManifest(wfiles[c][1])
    /\ BadNames(wfiles[c]) = {2}
    /\ werr[c] = "InvalidFileError"
    /\ werrName[c] = wfiles[c][2].name

\* C5: a list of well-named files with no manifest file fails with
\* NoManifestError before the prompt, and the prompt is reached only by a list
\* with exactly one manifest file.
C5_ExactlyOneManifest ==
  \A c \in Cmds :
    /\ (wpc[c] # "idle" /\ BadNames(wfiles[c]) = {} /\ ManifestFiles(wfiles[c]) = {})
       => (wpc[c] = "done" /\ werr[c] = "NoManifestError" /\ ~weffects[c].prompted)
    /\ weffects[c].prompted => Cardinality(ManifestFiles(wfiles[c])) = 1

\* C6: a cancelled prompt ends the command with the result undefined and no
\* error, and the cancelling step changes neither disk, registry nor the
\* last-save-directory setting; the command has done nothing to them.
C6_Inv ==
  \A c \in Cmds :
    (wpc[c] = "done" /\ weffects[c].prompted /\ wsaveDir[c] = <<>>)
    => /\ wresult[c] = Undefined
       /\ werr[c] = "none"
       /\ ~weffects[c].setLast
       /\ NoDiskEffect(c)
       /\ ~weffects[c].registered

C6_Act ==
  \A c \in Cmds :
    (wpc[c] = "prompt" /\ wpc'[c] = "done" /\ wsaveDir'[c] = <<>>)
    => UNCHANGED <<registry, dirOwner, diskFiles, lastSavedPluginDir>>

C6_CancelIsNoResult == []C6_Inv /\ [][C6_Act]_vars

C6_Witness ==
  \E c \in Cmds :
    wpc[c] = "done" /\ weffects[c].prompted /\ wsaveDir[c] = <<>> /\ wresult[c] = Undefined

\* C7 as stated: a command whose writes have all settled has registered its
\* manifest path and returned the id.
C7_AlwaysReturnsId ==
  \A c \in Cmds :
    (wpc[c] = "done" /\ weffects[c].mkCalled)
    => /\ werr[c] = "none"
       /\ wresult[c].kind = "id"
       /\ InRegistry(ManifestPathOf(c))

\* C7, amended: a failed write never fails the command: once every write has
\* settled, whichever failed, the manifest path is in the registry, and the
\* command returns its id if the path was not registered before and fails
\* with UnexpectedDuplicateError if it was.
C7_Inv ==
  \A c \in Cmds :
    (wpc[c] = "done" /\ weffects[c].mkCalled)
    => /\ InRegistry(ManifestPathOf(c))
       /\ \/ /\ werr[c] = "none"
             /\ wresult[c].kind = "id"
             /\ registry[wresult[c].id] = ManifestPathOf(c)
             /\ weffects[c].registered
          \/ /\ werr[c] = "UnexpectedDuplicateError"
             /\ wresult[c] = NoResult
             /\ ~weffects[c].registered

C7_Act ==
  \A c \in Cmds :
    (wpc[c] = "writing" /\ wpc'[c] = "done")
    => /\ werr'[c] = (IF InRegistry(ManifestPathOf(c))
                        THEN "UnexpectedDuplicateError" ELSE "none")
       /\ wfailed'[c] \cup weffects'[c].wrote = 1..Len(wfiles[c])

C7_WriteFailuresNotFatal == []C7_Inv /\ [][C7_Act]_vars

\* Registered and returned with every file missing on disk.
C7_Witness ==
  \E c \in Cmds :
    /\ wpc[c] = "done"
    /\ wresult[c].kind = "id"
    /\ Len(wfiles[c]) = 2
    /\ wfailed[c] = {1, 2}
    /\ \A f \in diskFiles : f.by # c

\* ------------------------------------------------------------ claims: importExtensions
Ids(seq) == {seq[i] : i \in 1..Len(seq)}
IsPrefix(r, p) == Len(r) <= Len(p) /\ SubSeq(p, 1, Len(r)) = r

\* How many directories below its picked root a call's path lies.
Level(t) == Len(t.path) - Len(ipicks[t.pick])

\* Path p lies at most idepth levels below a picked root.
WithinBudget(p) ==
  \E k \in 1..Len(ipicks) : IsPrefix(ipicks[k], p) /\ Len(p) - Len(ipicks[k]) <= idepth

\* No name of p below root r begins with a dot.
NoHiddenBelow(r, p) == \A j \in (Len(r) + 1)..Len(p) : p[j] = <<>> \/ p[j][1] # "."

\* C8: a call's budget is data.depth less its level below the picked root; a
\* path the scan registers or reports is a manifest at most data.depth levels
\* below a root; and a scan that resolves has reported every manifest file at
\* most data.depth levels below a root, the boundary included, that no hidden
\* directory stands before.
C8_DepthBudget ==
  /\ \A t \in tasks :
       /\ t.depth = idepth - Level(t)
       /\ t.reg # "no" => (basename(t.path) = MANIFEST_FILE_NAME /\ Level(t) <= idepth)
  /\ \A i \in (ibase + 1)..Len(registry) : WithinBudget(registry[i])
  /\ \A id \in Ids(added) \cup Ids(existed) : WithinBudget(registry[id])
  /\ ipc = "resolved"
       => \A k \in 1..Len(ipicks) : \A p \in DOMAIN fs :
            ( /\ fs[p] = "file"
              /\ basename(p) = MANIFEST_FILE_NAME
              /\ IsPrefix(ipicks[k], p)
              /\ Len(p) - Len(ipicks[k]) <= idepth
              /\ NoHiddenBelow(ipicks[k], p) )
            => \E id \in Ids(ireturn.added) \cup Ids(ireturn.existed) : registry[id] = p

\* A manifest found at the boundary, and one a level deeper left out.
C8_Witness ==
  /\ ipc = "resolved"
  /\ ipicks = << <<Plugins>> >>
  /\ idepth = 2
  /\ \E id \in Ids(ireturn.added) : registry[id] = ManifestA
  /\ \A i \in 1..Len(registry) : registry[i] # ManifestX

C9_Scenario(depth) ==
  /\ ipc = "resolved"
  /\ ipicks = << <<Plugins>> >>
  /\ idepth = depth
  /\ ibase = 0

\* C9 as stated: the import of /plugins with depth 2 into an empty registry
\* registers both manifests and returns both ids in added, existed empty.
C9_BothAdded ==
  C9_Scenario(2)
  => /\ Ids(registry) = {ManifestA, ManifestX}
     /\ Len(ireturn.added) = 2
     /\ Ids(ireturn.added) = {1, 2}
     /\ ireturn.existed = <<>>

\* C9, amended: with depth 2 the import registers /plugins/a/manifest.json
\* alone and returns its id alone in added; /plugins/b/x/manifest.json lies
\* three levels below /plugins, and it is with depth 3 that both are
\* registered and returned, in either order; existed is empty in both cases.
C9_OnlyAAdded ==
  /\ C9_Scenario(2)
     => /\ registry = <<ManifestA>>
        /\ ireturn.added = <<1>>
        /\ ireturn.existed = <<>>
  /\ C9_Scenario(3)
     => /\ Ids(registry) = {ManifestA, ManifestX}
        /\ Len(registry) = 2
        /\ Len(ireturn.added) = 2
        /\ Ids(ireturn.added) = {1, 2}
        /\ ireturn.existed = <<>>

C9_Witness == C9_Scenario(2) /\ registry = <<ManifestA>>

IsOtherFile(p) == fs[p] = "file" /\ basename(p) # MANIFEST_FILE_NAME

NoDuplicates(seq) == \A i \in 1..Len(seq) : \A j \in 1..Len(seq) : seq[i] = seq[j] => i = j

\* C11: the call for a picked directory that is not named as the manifest,
\* with depth 0, ends without an error and registers nothing, and no call for
\* a picked directory throws ManifestNamingError.
C11_DirectoryRootNoError ==
  \A t \in tasks :
    ( /\ t.topLevel
      /\ t.st # "stat"
      /\ fs[t.path] = "dir"
      /\ basename(t.path) # MANIFEST_FILE_NAME )
    => /\ t.err # "ManifestNamingError"
       /\ t.depth = 0 => (t.st = "done" /\ t.reg = "no" /\ ipc # "rejected")

\* C12: the added and existed lists of an import share no id and neither
\* holds an id twice, while they are filled and when they are returned.
C12_DisjointNoDuplicates ==
  /\ Ids(added) \cap Ids(existed) = {}
  /\ NoDuplicates(added)
  /\ NoDuplicates(existed)
  /\ Ids(ireturn.added) \cap Ids(ireturn.existed) = {}
  /\ NoDuplicates(ireturn.added)
  /\ NoDuplicates(ireturn.existed)

RegisteredBefore(p) == \E i \in 1..ibase : registry[i] = p

\* C13: the registry never holds a path twice; the import of one manifest
\* file that was not registered mints the next id, adds one record and returns
\* the id in added; the import of the same file again returns the same id in
\* existed, nothing in added, and leaves the number of records as it was.
C13_SecondAddExisted ==
  /\ NoDuplicates(registry)
  /\ \A t \in tasks :
       /\ t.reg = "added" => (InRegistry(t.path) /\ ~RegisteredBefore(t.path))
       /\ t.reg = "existed" => InRegistry(t.path)
  /\ (ipc = "resolved" /\ ipicks = <<ManifestA>>)
     => IF RegisteredBefore(ManifestA)
          THEN /\ Len(registry) = ibase
               /\ ireturn.added = <<>>
               /\ Len(ireturn.existed) = 1
               /\ registry[ireturn.existed[1]] = ManifestA
          ELSE /\ Len(registry) = ibase + 1
               /\ registry[ibase + 1] = ManifestA
               /\ ireturn.added = <<ibase + 1>>
               /\ ireturn.existed = <<>>

\* The second of two imports of the same manifest file.
C13_Witness ==
  /\ icount = 2
  /\ ipc = "resolved"
  /\ ipicks = <<ManifestA>>
  /\ registry = <<ManifestA>>
  /\ ibase = 1
  /\ ireturn = [added |-> <<>>, existed |-> <<1>>]

IsHiddenName(n) == n # <<>> /\ n[1] = "."

\* C19: no call made by recursion is for an entry whose name begins with a
\* dot, so every path the scan registers has no hidden name below the root it
\* was reached from; a picked root is processed whatever its own name: the
\* resolved import of a hidden directory alone, with depth 1 or more, returns
\* the manifest file in it.
C19_HiddenChildrenDropped ==
  /\ \A t \in tasks :
       /\ ~t.topLevel => ~IsHiddenName(basename(t.path))
       /\ t.reg # "no" => NoHiddenBelow(ipicks[t.pick], t.path)
  /\ \A i \in (ibase + 1)..Len(registry) :
       \E k \in 1..Len(ipicks) :
         IsPrefix(ipicks[k], registry[i]) /\ NoHiddenBelow(ipicks[k], registry[i])
  /\ (ipc = "resolved" /\ ipicks = << <<Plugins, Hidden>> >> /\ idepth >= 1)
     => \E id \in Ids(ireturn.added) \cup Ids(ireturn.existed) : registry[id] = ManifestH

\* A hidden directory picked beside its parent: its manifest is registered by
\* the call for the pick, the parent's scan having passed it by.
C19_Witness ==
  /\ ipc = "resolved"
  /\ ipicks = << <<Plugins>>, <<Plugins, Hidden>> >>
  /\ idepth = 2
  /\ \E t \in tasks : t.path = ManifestH /\ t.pick = 2 /\ t.reg = "added"
  /\ \A t \in tasks : t.pick = 1 => ~IsPrefix(<<Plugins, Hidden>>, t.path)

\* C20: a failed call rejects the command, which returns no lists, with the
\* error of a failed call; the registry only grows, so what a sibling call
\* registered, before the rejection or after it, stays registered.
C20_Inv ==
  /\ Failed(tasks) # {} <=> ipc = "rejected"
  /\ ipc = "rejected"
     => /\ ireturn = [added |-> <<>>, existed |-> <<>>]
        /\ \E t \in Failed(tasks) : t.err = ierr
  /\ \A t \in tasks : t.reg # "no" => InRegistry(t.path)

C20_Act == IsPrefix(registry, registry')

C20_FailureNotIsolated == []C20_Inv /\ [][C20_Act]_vars

\* A rejected command with one manifest registered before the rejection and
\* one registered after it.
C20_Witness ==
  /\ ipc = "rejected"
  /\ Pending(tasks) = {}
  /\ \E t \in tasks : t.reg = "added" /\ ~t.late /\ InRegistry(t.path)
  /\ \E t \in tasks : t.reg = "added" /\ t.late /\ InRegistry(t.path)

\* ------------------------------------------------------------ claims: writeNewPackage, registration and naming
\* The manifest file of command c as the handler holds it, and whether the
\* handler has re-serialized it (the contents of a request come at indent 0).
Submitted(c) == wfiles[c][wmIdx[c]].content
Defaulted(c) == Submitted(c).indent = 2

\* C14: once the destination has passed the leaf test, the manifest the
\* handler holds has a name; when the command has returned an id and its
\* manifest write succeeded, getManifest of that id yields, for a manifest
\* that came without a name, a manifest named as the destination's leaf, and
\* for a manifest that came with a name, the content of the request unchanged.
C14_NameDefaulted ==
  \A c \in Cmds :
    /\ weffects[c].mkCalled => Truthy(JSONparse(Submitted(c))[1].name)
    /\ (wpc[c] = "done" /\ wresult[c].kind = "id" /\ wmIdx[c] \in weffects[c].wrote)
       => LET m    == getManifest(registry, diskFiles, wresult[c].id)
              disk == CHOOSE f \in diskFiles : f.path = registry[wresult[c].id]
          IN  /\ m # <<>>
              /\ IF Defaulted(c)
                   THEN m[1].name = <<Str(basename(wsaveDir[c][1]))>>
                   ELSE disk.content = Submitted(c) /\ Submitted(c) \in ManifestContents

\* C17: a command that returned an id minted it by its own addPath call, and
\* no other command returned the same id; a command that failed with
\* UnexpectedDuplicateError returned nothing and failed after its directory was
\* made and every one of its writes had settled, the successful ones on disk.
C17_Inv ==
  \A c \in Cmds :
    /\ wresult[c].kind = "id"
       => /\ weffects[c].registered
          /\ werr[c] = "none"
          /\ registry[wresult[c].id] = ManifestPathOf(c)
          /\ \A d \in Cmds \ {c} : wresult[d] # wresult[c]
    /\ werr[c] = "UnexpectedDuplicateError"
       => /\ wresult[c] = NoResult
          /\ ~weffects[c].registered
          /\ weffects[c].mkCalled
          /\ dirOwner[wsaveDir[c][1]] # "absent"
          /\ wpending[c] = {}
          /\ \A i \in weffects[c].wrote :
               \E f \in diskFiles : f.path = join(wsaveDir[c][1], wfiles[c][i].name)

\* C17, the registration step: a path not yet registered gets the next id,
\* which is returned; a path already registered leaves the registry as it is
\* and fails the command, whatever put the record there.
C17_Act ==
  \A c \in Cmds :
    (wpc[c] = "writing" /\ wpc'[c] = "done")
    => IF InRegistry(ManifestPathOf(c))
         THEN /\ registry' = registry
              /\ werr'[c] = "UnexpectedDuplicateError"
              /\ wresult'[c] = NoResult
         ELSE /\ registry' = Append(registry, ManifestPathOf(c))
              /\ wresult'[c] = Id(Len(registry) + 1)

C17_IdOnlyIfMinted == []C17_Inv /\ [][C17_Act]_vars

\* Two commands on the same destination: one returned the id, the other
\* failed on the record the first had added, with a file of its own on disk.
C17_Witness ==
  \E c \in Cmds : \E d \in Cmds \ {c} :
    /\ wresult[d].kind = "id"
    /\ registry = <<ManifestPathOf(d)>>
    /\ wsaveDir[c] = wsaveDir[d]
    /\ werr[c] = "UnexpectedDuplicateError"
    /\ \E f \in diskFiles : f.by = c

\* C18: the step that fails a command with InvalidDirectoryError leaves the
\* last-save-directory setting as it was; the setting changes only on a
\* destination whose leaf name is not empty.
C18_Act ==
  \A c \in Cmds :
    /\ (werr[c] # "InvalidDirectoryError" /\ werr'[c] = "InvalidDirectoryError")
       => lastSavedPluginDir' = lastSavedPluginDir
    /\ (wpc[c] = "prompt" /\ lastSavedPluginDir' # lastSavedPluginDir)
       => wpc'[c] = "access"

C18_LeafCheckedFirst == [][C18_Act]_vars

\* ------------------------------------------------------------ claims: exportFiles
\* C15: an export whose destination was chosen and that has ended reached
\* every file of the set, in order, was not rejected, and each file was either
\* written or reported by an error box.
C15_BatchNeverAborted ==
  (epc = "done" /\ directoryPath # <<>>)
  => /\ eerr = "none"
     /\ eattempted = [i \in 1..Len(efiles) |-> i]
     /\ \A i \in 1..Len(efiles) : i \in ewrote \/ i \in Ids(edialogs)

\* C16: a cancelled export has ended without an error, with no directory
\* chosen, no file reached or written, no directory made and no error box.
C16_Inv ==
  eoutcome = "cancelled"
  => /\ epc = "done"
     /\ eerr = "none"
     /\ directoryPath = <<>>
     /\ eattempted = <<>>
     /\ ewrote = {}
     /\ emade = {}
     /\ edialogs = <<>>

\* C16, the steps of the dialogs: an answer that is no path or no single
\* directory cancels the command and leaves the setting and the disk as they
\* were; a chosen path sets the setting to its directory, a chosen directory
\* sets it to that directory, and the files go there.
C16_Act ==
  /\ (eoutcome # "cancelled" /\ eoutcome' = "cancelled")
     => /\ lastExportDir' = lastExportDir
        /\ exportDirs' = exportDirs
        /\ exportFiles' = exportFiles
  /\ epc = "dir" => lastExportDir' = lastExportDir
  /\ epc = "save"
     => IF savePath' = <<>>
          THEN eoutcome' = "cancelled"
          ELSE /\ lastExportDir' = <<SubSeq(savePath'[1], 1, Len(savePath'[1]) - 1)>>
               /\ directoryPath' = lastExportDir'
  /\ epc = "wait"
     => IF directories.null \/ Len(directories.list) # 1
          THEN eoutcome' = "cancelled"
          ELSE /\ lastExportDir' = <<directories.list[1]>>
               /\ directoryPath' = lastExportDir'

C16_CancelIsSilent == []C16_Inv /\ [][C16_Act]_vars

\* A second export cancelled after a first one chose a directory and wrote:
\* the setting still holds that directory.
C16_Witness ==
  /\ ecount = 2
  /\ eoutcome = "cancelled"
  /\ lastExportDir = << <<P>> >>
  /\ exportFiles # {}

====
